---- MODULE Spec2Model ----
(***************************************************************************)
(* Model of the user-management core of melo-finance-manager:             *)
(*   app/models/user.py  User.login, User.authenticate, CreateUser,       *)
(*                       PatchUser*, get_patch_fields                     *)
(*   app/config.py       SECRET_KEY                                       *)
(* AuthService, BaseModel (the repository) and the error classes are not  *)
(* part of the two source files; they are modelled from the specification *)
(* of the system (sections 4.3, 4.5 and 6).                               *)
(***************************************************************************)
EXTENDS Integers, Sequences, FiniteSets, TLC

\* ---------------------------------------------------------------- bounds
MaxUsers == 2
MaxTime == 2
MaxProcs == 3

\* Token time-to-live (configuration of AuthService).
TTL == 1

\* ---------------------------------------------------------------- values
\* A Python value that reaches a password parameter.  kind "str" is a
\* plaintext string, "nonstr" a JSON value that is no string (it has no
\* .encode), "bcrypt" a string bcrypt.hashpw returns for `text`: it stands
\* for the hash of `text` under whichever salt bcrypt.gensalt() drew.
Plain(p) ==
    [kind |-> "str", text |-> p]

NonStr ==
    [kind |-> "nonstr", text |-> "1"]

Hashed(p) ==
    [kind |-> "bcrypt", text |-> p]

PasswordInputs ==
    {Plain("p"), Plain("q"), NonStr}

\* An email address is a local part and a domain, each a sequence of
\* characters.  An address without a well-formed domain has d = <<>>.
Addr(l, d) ==
    [l |-> l, d |-> d]

RawEmails ==
    { Addr(<<"a">>, <<"b", ".", "c">>),
      Addr(<<"a">>, <<"B", ".", "C">>),
      Addr(<<"z">>, <<"b", ".", "c">>),
      Addr(<<"a">>, <<>>) }

\* The Unset sentinel of app.config and the values a full_name can take.
Unset ==
    "<Unset>"

NameInputs ==
    {"n", "m"}

\* Outcome of a call: a returned value, or a raised exception with its
\* type, message, headers and the __cause__ that `raise ... from exc` keeps.
None ==
    "<None>"

Ok(v) ==
    [ok |-> TRUE, type |-> "", msg |-> "", hdr |-> "", cause |-> "", val |-> v]

Raise(type, msg, hdr, cause) ==
    [ok |-> FALSE, type |-> type, msg |-> msg, hdr |-> hdr, cause |-> cause,
     val |-> None]

\* ---------------------------------------------------------------- email
\* str.lower on one character of the domain.
LowerChar(c) ==
    CASE c = "B" -> "b"
      [] c = "C" -> "c"
      [] OTHER -> c

Lower(d) ==
    [i \in DOMAIN d |-> LowerChar(d[i])]

\* email_validator.validate_email(email).normalized: raises
\* EmailNotValidError unless the address has a local part and a dotted
\* domain; the normalized form keeps the local part and lowercases the domain.
validate_email(email) ==
    IF Len(email.l) > 0 /\ Len(email.d) >= 3
          /\ email.d[1] # "." /\ email.d[Len(email.d)] # "."
          /\ \E i \in DOMAIN email.d : email.d[i] = "."
    THEN Ok(Addr(email.l, Lower(email.d)))
    ELSE Raise("EmailNotValidError", "EmailNotValidError", "", "")

\* ---------------------------------------------------------------- bcrypt
\* User.hash_password: password.encode('utf-8') raises AttributeError on a
\* value that is no string; otherwise bcrypt.hashpw with a fresh salt.
hash_password(password) ==
    IF password.kind = "nonstr"
    THEN Raise("AttributeError", "AttributeError", "", "")
    ELSE Ok(Hashed(password.text))

\* User.check_password: bcrypt.checkpw(password, self.password).  Raises on a
\* password that is no string (AttributeError) and on a stored value that is
\* no bcrypt hash (ValueError: Invalid salt).
check_password(user, password) ==
    IF password.kind = "nonstr"
    THEN Raise("AttributeError", "AttributeError", "", "")
    ELSE IF user.password.kind # "bcrypt"
    THEN Raise("ValueError", "Invalid salt", "", "")
    ELSE Ok(password.kind = "str" /\ password.text = user.password.text)

\* ---------------------------------------------------------------- requests
\* CreateUser.__post_init__: role is fixed to 'user'; the email is
\* normalized and the password hashed, any exception becoming
\* UnprocessableContentException.
CreateUser_raw(email, password, full_name) ==
    LET h == hash_password(password) IN
    IF ~h.ok
    THEN Raise("UnprocessableContentException", h.msg, "", h.type)
    ELSE Ok([email |-> email, password |-> h.val,
             full_name |-> full_name, role |-> "user"])

CreateUser(email, password, full_name) ==
    LET e == validate_email(email)
        h == hash_password(password) IN
    IF ~e.ok
    THEN Raise("UnprocessableContentException", e.msg, "", e.type)
    ELSE IF ~h.ok
    THEN Raise("UnprocessableContentException", h.msg, "", h.type)
    ELSE Ok([email |-> e.val, password |-> h.val,
             full_name |-> full_name, role |-> "user"])

\* PatchUserEmail.__post_init__ followed by vars().
PatchUserEmail(email) ==
    LET e == validate_email(email) IN
    IF ~e.ok
    THEN Raise("UnprocessableContentException", e.msg, "", e.type)
    ELSE Ok([email |-> e.val])

\* PatchUserPassword.__post_init__ followed by vars(): the dataclass has the
\* fields old_password and new_password, and only new_password is replaced
\* by its hash.
PatchUserPassword_nocompare(old_password, new_password) ==
    LET h == hash_password(new_password) IN
    IF ~h.ok
    THEN Raise("UnprocessableContentException", "Passwords are invalid", "",
               h.type)
    ELSE Ok([old_password |-> old_password, new_password |-> h.val])

PatchUserPassword(old_password, new_password) ==
    LET h == hash_password(new_password) IN
    IF new_password = old_password
    THEN Raise("UnprocessableContentException",
               "New password must be different from the old password", "", "")
    ELSE IF ~h.ok
    THEN Raise("UnprocessableContentException", "Passwords are invalid", "",
               h.type)
    ELSE Ok([old_password |-> old_password, new_password |-> h.val])

\* PatchUser(**data) followed by vars(): TypeError on a keyword that is no
\* field; full_name defaults to Unset.
PatchUser(d) ==
    IF DOMAIN d \subseteq {"full_name"}
    THEN Ok([full_name |-> IF "full_name" \in DOMAIN d
                           THEN d["full_name"] ELSE Unset])
    ELSE Raise("TypeError", "unexpected keyword argument", "", "")

\* get_patch_fields.  data is [isMap, d]: d is the dict when the request
\* data is a mapping.  A mapping pattern matches when its keys are present,
\* whatever other keys the dict has, and `case {}` matches every mapping.
get_patch_fields(data) ==
    IF ~data.isMap
    THEN Raise("UnprocessableContentException", "Invalid data", "", "")
    ELSE IF "email" \in DOMAIN data.d
    THEN PatchUserEmail(data.d["email"])
    ELSE IF {"old_password", "new_password"} \subseteq DOMAIN data.d
    THEN PatchUserPassword(data.d["old_password"], data.d["new_password"])
    ELSE LET p == PatchUser(data.d) IN
         IF ~p.ok
         THEN Raise("UnprocessableContentException", "Invalid data", "", p.type)
         ELSE Ok([k \in {x \in DOMAIN p.val : p.val[x] # Unset} |-> p.val[k]])

\* ---------------------------------------------------------------- tokens
\* One space-free piece of an Authorization header: a word, or a signed
\* token carrying a user id, an expiry and the key that signed it.
Word(w) ==
    [w |-> w, uid |-> 0, exp |-> 0, sig |-> ""]

Jwt(uid, exp, sig) ==
    [w |-> "jwt", uid |-> uid, exp |-> exp, sig |-> sig]

SP ==
    Word(" ")

Bearer ==
    Word("Bearer")

\* AuthService.generate_token(user_id): the token and its expiry, signed
\* with SECRET_KEY; `fault` is an internal error raised while issuing.
generate_token(user_id, secret, clock, fault) ==
    IF fault = "token"
    THEN Raise("RuntimeError", "token issuance failed", "", "")
    ELSE Ok(<<Jwt(user_id, clock + TTL, secret), clock + TTL>>)

\* AuthService.verify_token(token): the user id of a well-formed token
\* signed with SECRET_KEY whose expiry has not been reached.
verify_token(token, secret, clock) ==
    IF Len(token) # 1 \/ token[1].w # "jwt"
    THEN Raise("DecodeError", "Not enough segments", "", "")
    ELSE IF token[1].sig # secret
    THEN Raise("InvalidSignatureError", "Signature verification failed", "", "")
    ELSE IF clock >= token[1].exp
    THEN Raise("ExpiredSignatureError", "Signature has expired", "", "")
    ELSE Ok(token[1].uid)

\* ---------------------------------------------------------------- store
Columns ==
    {"email", "password", "full_name", "role"}

\* db.Column(db.String(120), unique=True): no other row holds the email.
UniqueEmail_off(store, id, email) ==
    TRUE

UniqueEmail(store, id, email) ==
    \A j \in DOMAIN store \ {id} : store[j].email # email

\* cls.query.filter_by(email=email): the ids of the rows whose email column
\* equals the argument as given.
filter_by_email(store, email) ==
    {i \in DOMAIN store : store[i].email = email}

\* .first() of a non-empty result: the row of lowest id.
first(ids) ==
    CHOOSE i \in ids : \A j \in ids : i <= j

\* BaseModel.get_one(id=...)
get_one(store, id) ==
    IF id \in DOMAIN store
    THEN Ok(store[id])
    ELSE Raise("NotFoundException", "Not found", "", "")

\* The table with the row of `id` written, and with it removed.
Put(store, id, row) ==
    [i \in DOMAIN store \cup {id} |-> IF i = id THEN row ELSE store[i]]

Drop(store, id) ==
    [i \in DOMAIN store \ {id} |-> store[i]]

\* BaseModel.create: the INSERT of the row a CreateUser holds; the unique
\* index on email rejects a duplicate, surfaced as ConflictError.
insert(store, id, row) ==
    IF UniqueEmail(store, id, row.email)
    THEN Ok(row)
    ELSE Raise("ConflictError", "email already exists", "", "IntegrityError")

\* BaseModel.patch: the returned fields that are columns replace the row's.
apply_fields(row, fields) ==
    [c \in Columns |-> IF c \in DOMAIN fields THEN fields[c] ELSE row[c]]

\* ---------------------------------------------------------------- login
\* The body of the try block of User.login.
login_try(store, email, password, fault, secret, clock) ==
    IF fault = "db"
    THEN Raise("OperationalError", "database is unavailable", "", "")
    ELSE IF filter_by_email(store, email) = {}
    THEN Raise("UnauthorizedException", "User not found", "", "")
    ELSE LET uid == first(filter_by_email(store, email))
             c == check_password(store[uid], password) IN
         IF ~c.ok THEN c
         ELSE IF c.val
         THEN generate_token(uid, secret, clock, fault)
         ELSE Raise("UnauthorizedException", "Password is incorrect", "", "")

\* User.login with `except UnauthorizedException: raise` ahead of the
\* broad handler.
login_reraise(store, email, password, fault, secret, clock) ==
    LET r == login_try(store, email, password, fault, secret, clock) IN
    IF r.ok \/ r.type = "UnauthorizedException" THEN r
    ELSE Raise("UnauthorizedException", "Invalid credentials", "", r.msg)

\* User.login: every exception of the try block is re-raised as
\* UnauthorizedException('Invalid credentials') from it.
login(store, email, password, fault, secret, clock) ==
    LET r == login_try(store, email, password, fault, secret, clock) IN
    IF r.ok THEN r
    ELSE Raise("UnauthorizedException", "Invalid credentials", "", r.msg)

\* ---------------------------------------------------------------- authenticate
\* str.split(' '): the pieces between single spaces, empty pieces kept.
RECURSIVE split(_)
split(s) ==
    IF s = <<>> THEN << <<>> >>
    ELSE LET rest == split(Tail(s)) IN
         IF Head(s) = SP THEN << <<>> >> \o rest
         ELSE << <<Head(s)>> \o Head(rest) >> \o Tail(rest)

\* The body of the try block of User.authenticate.
authenticate_try(store, header, secret, clock) ==
    LET parts == split(header) IN
    IF Len(parts) = 2 /\ parts[1] = <<Bearer>>
    THEN LET v == verify_token(parts[2], secret, clock) IN
         IF ~v.ok THEN v ELSE get_one(store, v.val)
    ELSE Raise("UnauthorizedException", "Invalid token", "", "")

\* User.authenticate matching on the scheme alone, `case ['Bearer', *rest]`.
authenticate_loose(store, header, secret, clock) ==
    LET parts == split(header)
        v == verify_token(parts[Len(parts)], secret, clock)
        u == IF v.ok THEN get_one(store, v.val) ELSE v IN
    IF Len(parts) >= 2 /\ parts[1] = <<Bearer>> /\ u.ok THEN u
    ELSE Raise("UnauthorizedException", "Invalid Token", "bearer", u.msg)

\* User.authenticate matching the scheme 'bearer' in place of 'Bearer'.
authenticate_scheme(store, header, secret, clock) ==
    LET parts == split(header)
        v == verify_token(parts[Len(parts)], secret, clock)
        u == IF v.ok THEN get_one(store, v.val) ELSE v IN
    IF Len(parts) = 2 /\ parts[1] = <<Word("bearer")>> /\ u.ok THEN u
    ELSE Raise("UnauthorizedException", "Invalid Token", "bearer", u.msg)

\* User.authenticate: every exception of the try block is re-raised as
\* UnauthorizedException('Invalid Token') with the WWW-Authenticate header.
authenticate(store, header, secret, clock) ==
    LET r == authenticate_try(store, header, secret, clock) IN
    IF r.ok THEN r
    ELSE Raise("UnauthorizedException", "Invalid Token", "bearer", r.msg)

\* ---------------------------------------------------------------- state
VARIABLES
    users,       \* the users table: id -> row
    nextId,      \* the next primary key
    SECRET_KEY,  \* app.config.SECRET_KEY
    now,         \* the clock
    held,        \* the token a client kept from a successful login, if any
    res,         \* the last operation: its name, inputs and outcome
    pc,          \* concurrent creates: where each request is
    req          \* concurrent creates: the CreateUser each request built

vars ==
    <<users, nextId, SECRET_KEY, now, held, res, pc, req>>

Procs ==
    1..MaxProcs

NoRes ==
    [op |-> "none", in |-> None, r |-> Ok(None)]

Init ==
    /\ users = [i \in {} |-> None]
    /\ nextId = 1
    /\ SECRET_KEY = "MELO_SECRET_KEY"
    /\ now = 0
    /\ held = {}
    /\ res = NoRes
    /\ pc = [p \in Procs |-> "start"]
    /\ req = [p \in Procs |-> None]

\* ---------------------------------------------------------------- inputs
CreateInputs ==
    {[email |-> e, password |-> Plain("p")] : e \in RawEmails}
        \cup {[email |-> Addr(<<"a">>, <<"b", ".", "c">>), password |-> NonStr]}

LoginInputs ==
    {[email |-> e, password |-> w, fault |-> "none"] :
        e \in RawEmails \ {Addr(<<"a">>, <<>>)}, w \in {Plain("p"), Plain("q")}}
        \cup {[email |-> Addr(<<"a">>, <<"b", ".", "c">>), password |-> NonStr,
               fault |-> "none"]}
        \cup {[email |-> Addr(<<"a">>, <<"b", ".", "c">>),
               password |-> Plain("p"), fault |-> f] : f \in {"db", "token"}}

Dict(d) ==
    [isMap |-> TRUE, d |-> d]

NotADict ==
    [isMap |-> FALSE, d |-> <<>>]

PatchInputs ==
    {Dict([email |-> e]) : e \in RawEmails}
        \cup {Dict([old_password |-> Plain("p"), new_password |-> n]) :
                n \in PasswordInputs}
        \cup {Dict([old_password |-> Plain("q"), new_password |-> Plain("p")])}
        \cup {Dict([full_name |-> "m"]), Dict(<<>>), Dict([role |-> "admin"]),
              Dict([email |-> Addr(<<"z">>, <<"B", ".", "C">>),
                    full_name |-> "m"]),
              NotADict}

\* The headers a caller presents: every shape around a token that a login
\* returned or a copy of it signed with another key.
Forged(t) ==
    Jwt(t.uid, t.exp, "forged")

HeaderInputs ==
    {<<>>, <<Bearer>>, <<Bearer, SP>>}
        \cup UNION {{ <<Bearer, SP, t>>, <<Bearer, SP, Forged(t)>>,
                      <<Bearer, SP, SP, t>>, <<Word("bearer"), SP, t>>,
                      <<t>>, <<Bearer, SP, t, SP, t>> } : t \in held}

\* ---------------------------------------------------------------- actions
\* create: build the CreateUser from the request, then insert its row.
Create ==
    \E inp \in CreateInputs :
        LET c == CreateUser(inp.email, inp.password, "n")
            r == IF c.ok THEN insert(users, nextId, c.val) ELSE c IN
        /\ nextId <= MaxUsers
        /\ users' = IF r.ok THEN Put(users, nextId, r.val) ELSE users
        /\ nextId' = IF r.ok THEN nextId + 1 ELSE nextId
        /\ res' = [op |-> "create", in |-> inp, r |-> r]
        /\ UNCHANGED <<SECRET_KEY, now, held, pc, req>>

\* patch: resolve the payload with get_patch_fields, apply the returned
\* fields to the row and persist it (the UPDATE is under the unique index).
Patch ==
    \E id \in DOMAIN users, data \in PatchInputs :
        LET f == get_patch_fields(data)
            row == IF f.ok THEN apply_fields(users[id], f.val) ELSE users[id]
            r == IF f.ok /\ ~UniqueEmail(users, id, row.email)
                 THEN Raise("ConflictError", "email already exists", "",
                            "IntegrityError")
                 ELSE f IN
        /\ users' = IF r.ok THEN Put(users, id, row) ELSE users
        /\ res' = [op |-> "patch",
                   in |-> [id |-> id, data |-> data, row |-> users[id]],
                   r |-> r]
        /\ UNCHANGED <<nextId, SECRET_KEY, now, held, pc, req>>

Login ==
    \E inp \in LoginInputs :
        LET r == login(users, inp.email, inp.password, inp.fault,
                       SECRET_KEY, now) IN
        /\ held' \in IF r.ok THEN {held, {r.val[1]}} ELSE {held}
        /\ res' = [op |-> "login", in |-> inp, r |-> r]
        /\ UNCHANGED <<users, nextId, SECRET_KEY, now, pc, req>>

Authenticate ==
    \E header \in HeaderInputs :
        /\ res' = [op |-> "auth", in |-> header,
                   r |-> authenticate(users, header, SECRET_KEY, now)]
        /\ UNCHANGED <<users, nextId, SECRET_KEY, now, held, pc, req>>

\* Time passes.
Tick ==
    /\ now < MaxTime
    /\ now' = now + 1
    /\ res' = [op |-> "tick", in |-> now, r |-> Ok(None)]
    /\ UNCHANGED <<users, nextId, SECRET_KEY, held, pc, req>>

\* An administrator removes a row (deletion is outside the core).
Delete ==
    \E id \in DOMAIN users :
        /\ users' = Drop(users, id)
        /\ res' = [op |-> "delete", in |-> id, r |-> Ok(None)]
        /\ UNCHANGED <<nextId, SECRET_KEY, now, held, pc, req>>

Next ==
    \/ Create
    \/ Patch
    \/ Login
    \/ Authenticate
    \/ Tick
    \/ Delete

Spec ==
    Init /\ [][Next]_vars

\* ---------------------------------------------------------------- concurrent creates
\* Each request runs create in two steps that interleave with the other
\* requests': it builds its CreateUser, then inserts the row.
Build(p) ==
    \E inp \in CreateInputs, name \in NameInputs :
        LET c == CreateUser(inp.email, inp.password, name) IN
        /\ pc[p] = "start"
        /\ pc' = [pc EXCEPT ![p] = IF c.ok THEN "built" ELSE c.type]
        /\ req' = [req EXCEPT ![p] = c.val]
        /\ UNCHANGED <<users, nextId, SECRET_KEY, now, held, res>>

Insert(p) ==
    LET r == insert(users, nextId, req[p]) IN
    /\ pc[p] = "built"
    /\ users' = IF r.ok THEN Put(users, nextId, r.val) ELSE users
    /\ nextId' = IF r.ok THEN nextId + 1 ELSE nextId
    /\ pc' = [pc EXCEPT ![p] = IF r.ok THEN "done" ELSE r.type]
    /\ UNCHANGED <<SECRET_KEY, now, held, res, req>>

NextCreate ==
    \/ \E p \in Procs : Build(p)
    \/ \E p \in Procs : Insert(p)

SpecCreate ==
    Init /\ [][NextCreate]_vars

\* ---------------------------------------------------------------- payloads
\* get_patch_fields applied to every dict over these keys, and to request
\* data that is no dict.
Keys ==
    {"email", "old_password", "new_password", "full_name", "role"}

Resolve ==
    \E K \in SUBSET Keys, e \in RawEmails, o \in PasswordInputs,
       n \in PasswordInputs, fn \in NameInputs :
        LET d == [k \in K |-> CASE k = "email" -> e
                                [] k = "old_password" -> o
                                [] k = "new_password" -> n
                                [] k = "full_name" -> fn
                                [] OTHER -> "admin"] IN
        /\ res' = [op |-> "resolve", in |-> Dict(d),
                   r |-> get_patch_fields(Dict(d))]
        /\ UNCHANGED <<users, nextId, SECRET_KEY, now, held, pc, req>>

ResolveOther ==
    /\ res' = [op |-> "resolve", in |-> NotADict,
               r |-> get_patch_fields(NotADict)]
    /\ UNCHANGED <<users, nextId, SECRET_KEY, now, held, pc, req>>

NextResolve ==
    \/ Resolve
    \/ ResolveOther

SpecResolve ==
    Init /\ [][NextResolve]_vars

\* ---------------------------------------------------------------- claims
IsPasswordPatch(data) ==
    data.isMap /\ DOMAIN data.d = {"old_password", "new_password"}

\* C1: every failing login raises UnauthorizedException('Invalid
\* credentials'), whatever made it fail, and a login fails exactly when a
\* fault occurs, no row has the email as given, or the password does not
\* verify against the row.
C1_LoginFailsUniformly ==
    res.op = "login" =>
        LET found == filter_by_email(users, res.in.email) IN
        /\ res.r.ok <=>
              /\ res.in.fault = "none"
              /\ found # {}
              /\ res.in.password.kind = "str"
              /\ \E i \in found : users[i].password = Hashed(res.in.password.text)
        /\ ~res.r.ok =>
              /\ res.r.type = "UnauthorizedException"
              /\ res.r.msg = "Invalid credentials"

\* A login with a wrong password has failed, next to the missing account.
C1_Witness ==
    /\ res.op = "login"
    /\ ~res.r.ok
    /\ res.r.cause = "Password is incorrect"
    /\ res.in.fault = "none"

\* C2: authenticate succeeds exactly on the header 'Bearer', one space, a
\* token that verifies and names a stored user; every failure is
\* UnauthorizedException('Invalid Token') with WWW-Authenticate: bearer.
C2_AuthenticateFailsUniformly ==
    res.op = "auth" =>
        LET h == res.in IN
        /\ res.r.ok <=>
              /\ Len(h) = 3
              /\ h[1] = Bearer
              /\ h[2] = SP
              /\ h[3].w = "jwt"
              /\ h[3].sig = SECRET_KEY
              /\ now < h[3].exp
              /\ h[3].uid \in DOMAIN users
        /\ ~res.r.ok =>
              /\ res.r.type = "UnauthorizedException"
              /\ res.r.msg = "Invalid Token"
              /\ res.r.hdr = "bearer"

\* A header with a doubled space around a token that is valid has failed.
C2_Witness ==
    /\ res.op = "auth"
    /\ ~res.r.ok
    /\ Len(res.in) = 4
    /\ res.in[1] = Bearer /\ res.in[2] = SP /\ res.in[3] = SP
    /\ res.in[4] \in held
    /\ now < res.in[4].exp
    /\ res.in[4].uid \in DOMAIN users

\* C3: a token a successful login returned authenticates as its user's
\* current row while the user is stored and the expiry is not reached,
\* whatever create, login and patch did since; after the expiry it fails.
C3_TokenRoundTrip ==
    \A t \in held :
        LET r == authenticate(users, <<Bearer, SP, t>>, SECRET_KEY, now) IN
        /\ t.uid \in DOMAIN users /\ now < t.exp =>
              r.ok /\ r.val = users[t.uid]
        /\ now > t.exp =>
              ~r.ok /\ r.type = "UnauthorizedException"

\* A kept token has authenticated as a row that a patch has renamed, with
\* a second user stored.
C3_Witness ==
    /\ res.op = "auth"
    /\ res.r.ok
    /\ Len(res.in) = 3
    /\ res.in[3] \in held
    /\ res.r.val.full_name = "m"
    /\ Cardinality(DOMAIN users) = 2

\* C4: a password patch with differing values returns the single field
\* password holding the hash of new_password, and the row's password then
\* is that hash.
C4_PasswordPatchReplacesHash ==
    /\ res.op = "patch"
    /\ IsPasswordPatch(res.in.data)
    /\ res.in.data.d["old_password"] # res.in.data.d["new_password"]
    /\ res.in.data.d["new_password"].kind = "str"
    => /\ res.r.ok
       /\ DOMAIN res.r.val = {"password"}
       /\ res.r.val["password"] = Hashed(res.in.data.d["new_password"].text)
       /\ users[res.in.id].password
             = Hashed(res.in.data.d["new_password"].text)

\* C5: a payload whose keys are neither exactly {email}, nor exactly
\* {old_password, new_password}, nor only full_name, fails with
\* 'Invalid data'.
C5_OtherShapesRejected ==
    /\ res.op = "resolve"
    /\ \/ ~res.in.isMap
       \/ /\ DOMAIN res.in.d # {"email"}
          /\ DOMAIN res.in.d # {"old_password", "new_password"}
          /\ ~(DOMAIN res.in.d \subseteq {"full_name"})
    => /\ ~res.r.ok
       /\ res.r.type = "UnprocessableContentException"
       /\ res.r.msg = "Invalid data"

\* C6: every stored password, and every password value in the field map a
\* patch resolved, is a hash.
PasswordKeys ==
    {"password", "old_password", "new_password"}

C6_NoPlaintextPassword ==
    /\ \A i \in DOMAIN users : users[i].password.kind = "bcrypt"
    /\ res.op = "patch" /\ res.r.ok =>
          \A k \in DOMAIN res.r.val \cap PasswordKeys :
              res.r.val[k].kind = "bcrypt"

\* C7: every stored email is its own normalized form, and no two rows
\* share an email.
C7_EmailNormalizedUnique ==
    /\ \A i \in DOMAIN users :
          /\ validate_email(users[i].email).ok
          /\ validate_email(users[i].email).val = users[i].email
    /\ \A i, j \in DOMAIN users :
          i # j => users[i].email # users[j].email

\* Two users are stored, and the last one was created from an email that
\* was not in normalized form.
C7_Witness ==
    /\ Cardinality(DOMAIN users) = 2
    /\ res.op = "create"
    /\ res.r.ok
    /\ res.in.email # res.r.val.email
    /\ \E i \in DOMAIN users : users[i] = res.r.val

\* C8: of the concurrent creates of one normalized email, as soon as one
\* has finished exactly one has succeeded, the others that finished got
\* ConflictError, and the table holds the email once.
C8_OneCreateWins ==
    /\ \A p \in Procs :
          pc[p] \in {"start", "built", "done", "ConflictError",
                     "UnprocessableContentException"}
    /\ \A p \in Procs :
          pc[p] \in {"done", "ConflictError"} =>
              /\ Cardinality({q \in Procs : pc[q] = "done"
                                  /\ req[q].email = req[p].email}) = 1
              /\ Cardinality({i \in DOMAIN users :
                                  users[i].email = req[p].email}) = 1

\* Every request was for the same email; one succeeded and all the others
\* got ConflictError.
C8_Witness ==
    /\ \A p \in Procs : pc[p] \in {"done", "ConflictError"}
    /\ \A p, q \in Procs : req[p].email = req[q].email
    /\ Cardinality({p \in Procs : pc[p] = "done"}) = 1

\* C9: a login whose email normalizes to a stored user's email, with the
\* password that verifies against that user's hash, succeeds.
C9_LoginNormalizesEmail ==
    /\ res.op = "login"
    /\ res.in.fault = "none"
    /\ res.in.password.kind = "str"
    /\ validate_email(res.in.email).ok
    /\ \E i \in DOMAIN users :
          /\ users[i].email = validate_email(res.in.email).val
          /\ users[i].password = Hashed(res.in.password.text)
    => res.r.ok

\* C10 as stated: a password patch fails only when the two values are equal.
C10_FailsOnlyWhenEqual ==
    res.op = "patch" /\ IsPasswordPatch(res.in.data) =>
        (res.r.ok <=>
            res.in.data.d["old_password"] # res.in.data.d["new_password"])

\* C10 amended: the outcome of a password patch is decided by the payload
\* alone: it succeeds when the values differ and new_password is a string
\* that can be hashed, fails with 'New password must be different from the
\* old password' when they are equal, and with 'Passwords are invalid' when
\* they differ and hashing new_password raises.
C10_PasswordPatchPayloadOnly ==
    res.op = "patch" /\ IsPasswordPatch(res.in.data) =>
        LET old == res.in.data.d["old_password"]
            new == res.in.data.d["new_password"] IN
        /\ res.r.ok <=> old # new /\ new.kind = "str"
        /\ old = new =>
              res.r.msg = "New password must be different from the old password"
        /\ old # new /\ new.kind # "str" =>
              res.r.msg = "Passwords are invalid"

\* A password patch has succeeded whose old_password does not verify
\* against the hash the row held.
C10_Witness ==
    /\ res.op = "patch"
    /\ IsPasswordPatch(res.in.data)
    /\ res.r.ok
    /\ check_password(res.in.row, res.in.data.d["old_password"]).ok
    /\ ~check_password(res.in.row, res.in.data.d["old_password"]).val

====
